---------------------------- MODULE Spec2Model ----------------------------
(***************************************************************************)
(* A model of the situation-evaluation engine of the character framework   *)
(* (src/decision_engine.py, class DecisionEngine) and of the history its   *)
(* orchestrator hands to it.                                               *)
(*                                                                         *)
(* Representation.  A Python str the engine scans (an utterance, a         *)
(* pattern's if_situation, a value name, the moral framework notes) is a   *)
(* sequence of one-character strings, so that lower(), `in`, count(),      *)
(* split() and re.search() are computed character by character.  A str     *)
(* the engine only copies (then_response_style, category, the character's  *)
(* reply) is an opaque TLA+ string.  A dict is a function whose DOMAIN is  *)
(* the set of keys present.  A float score is a fixed-point integer with   *)
(* ScoreUnit units per 1.0.                                                *)
(***************************************************************************)
EXTENDS Integers, Sequences, FiniteSets, TLC

VARIABLES
    decision_rules,        \* character_profile.decision_rules (a dict)
    conversation_history,  \* the list shared by orchestrator and engine
    call,                  \* the inputs of the latest evaluate_situation call
    guidance,              \* the dict that call returned
    recorded,              \* an earlier call kept for comparison
    probe                  \* the latest direct application of a helper

vars == <<decision_rules, conversation_history, call, guidance, recorded, probe>>

(***************************************************************************)
(* Python values                                                           *)
(***************************************************************************)
\* dict.get(key, default)
Get(d, key, default) == IF key \in DOMAIN d THEN d[key] ELSE default

\* d[key] = value
Put(d, key, value) ==
    [k \in (DOMAIN d) \cup {key} |-> IF k = key THEN value ELSE d[k]]

\* the empty dict {}
EmptyDict == [k \in {} |-> 0]

\* the number of fixed-point units in the float 1.0
ScoreUnit == 60

ToLower ==
    ("A" :> "a") @@ ("B" :> "b") @@ ("C" :> "c") @@ ("D" :> "d") @@
    ("E" :> "e") @@ ("F" :> "f") @@ ("G" :> "g") @@ ("H" :> "h") @@
    ("I" :> "i") @@ ("J" :> "j") @@ ("K" :> "k") @@ ("L" :> "l") @@
    ("M" :> "m") @@ ("N" :> "n") @@ ("O" :> "o") @@ ("P" :> "p") @@
    ("Q" :> "q") @@ ("R" :> "r") @@ ("S" :> "s") @@ ("T" :> "t") @@
    ("U" :> "u") @@ ("V" :> "v") @@ ("W" :> "w") @@ ("X" :> "x") @@
    ("Y" :> "y") @@ ("Z" :> "z")

\* str.lower()
lower(s) ==
    [i \in 1..Len(s) |-> IF s[i] \in DOMAIN ToLower THEN ToLower[s[i]] ELSE s[i]]

\* s occurs in t at position i
OccursAt(s, t, i) ==
    /\ i + Len(s) - 1 <= Len(t)
    /\ \A j \in 1..Len(s) : t[i + j - 1] = s[j]

\* the Python expression `s in t` on two str
Contains(t, s) == \E i \in 1..(Len(t) + 1) : OccursAt(s, t, i)

RECURSIVE CountFrom(_, _, _)
CountFrom(t, s, i) ==
    IF i + Len(s) - 1 > Len(t) THEN 0
    ELSE IF OccursAt(s, t, i) THEN 1 + CountFrom(t, s, i + Len(s))
    ELSE CountFrom(t, s, i + 1)

\* t.count(s) for a non-empty s: non-overlapping occurrences, left to right
count(t, s) == CountFrom(t, s, 1)

(***************************************************************************)
(* re.search, for the regular expressions the model uses: literal          *)
(* characters, "." for any character, and parentheses for grouping.  A     *)
(* source whose parentheses do not balance does not compile (re.error).    *)
(***************************************************************************)
RECURSIVE ParenDepth(_, _, _)
ParenDepth(src, i, depth) ==
    IF depth < 0 THEN depth
    ELSE IF i > Len(src) THEN depth
    ELSE IF src[i] = "(" THEN ParenDepth(src, i + 1, depth + 1)
    ELSE IF src[i] = ")" THEN ParenDepth(src, i + 1, depth - 1)
    ELSE ParenDepth(src, i + 1, depth)

re_error(src) == ParenDepth(src, 1, 0) # 0

\* the source with its grouping parentheses removed
Atoms(src) == SelectSeq(src, LAMBDA c : c \notin {"(", ")"})

MatchesAt(atoms, t, i) ==
    /\ i + Len(atoms) - 1 <= Len(t)
    /\ \A j \in 1..Len(atoms) : atoms[j] = "." \/ t[i + j - 1] = atoms[j]

\* re.search(src, t) is not None, for a source that compiles
re_search(src, t) ==
    \E i \in 1..(Len(t) + 1) : MatchesAt(Atoms(src), t, i)

(***************************************************************************)
(* DecisionEngine._match_decision_pattern                                  *)
(***************************************************************************)
PersonalQuestion == <<"a","s","k","e","d"," ","a"," ","d","i","r","e","c","t"," ","p","e","r","s","o","n","a","l"," ","q","u","e","s","t","i","o","n">>

Criticized == <<"c","r","i","t","i","c","i","z","e","d">>

Complimented == <<"c","o","m","p","l","i","m","e","n","t","e","d">>

Threatened == <<"t","h","r","e","a","t","e","n","e","d">>

\* patterns_config, in the order of the dict literal
patterns_config ==
    << [key |-> PersonalQuestion, score |-> 7 * ScoreUnit,
        keywords |-> << <<"?">> >>],
       [key |-> Criticized, score |-> 8 * ScoreUnit,
        keywords |-> << <<"w","r","o","n","g">>, <<"b","a","d">>, <<"t","e","r","r","i","b","l","e">>, <<"a","w","f","u","l">>, <<"m","i","s","t","a","k","e">> >>],
       [key |-> Complimented, score |-> 6 * ScoreUnit,
        keywords |-> << <<"g","o","o","d">>, <<"g","r","e","a","t">>, <<"e","x","c","e","l","l","e","n","t">>, <<"a","m","a","z","i","n","g">>, <<"w","o","n","d","e","r","f","u","l">> >>],
       [key |-> Threatened, score |-> 9 * ScoreUnit,
        keywords |-> << <<"t","h","r","e","a","t">>, <<"d","a","n","g","e","r">>, <<"w","a","r","n","i","n","g">>, <<"c","a","r","e","f","u","l">>, <<"w","a","t","c","h"," ","o","u","t">> >>] >>

\* any(word in text for word in keywords)
AnyKeyword(text, keywords) ==
    \E k \in 1..Len(keywords) : Contains(text, keywords[k])

\* (variant) no except clause: re.error leaves _match_decision_pattern
re_error_escapes == FALSE

\* the except clause: re.error is caught inside _match_decision_pattern
re_error_caught == TRUE

\* the score returned by the except clause
RegexErrorScore(situation_pattern) == 0

\* the score of a regex whose search succeeded
RegexMatchScore(situation_pattern) ==
    IF \E k \in 1..Len(patterns_config) : patterns_config[k].key = situation_pattern
    THEN patterns_config[CHOOSE k \in 1..Len(patterns_config) :
                             patterns_config[k].key = situation_pattern].score
    ELSE 5 * ScoreUnit

\* (variant) the keywords are looked up in user_input, not user_input_lower
KeywordScoreCaseSensitive(situation_pattern, user_input) ==
    IF Contains(situation_pattern, PersonalQuestion) /\ Contains(user_input, <<"?">>)
    THEN patterns_config[1].score
    ELSE IF Contains(situation_pattern, Criticized)
            /\ AnyKeyword(user_input, patterns_config[2].keywords)
    THEN patterns_config[2].score
    ELSE IF Contains(situation_pattern, Complimented)
            /\ AnyKeyword(user_input, patterns_config[3].keywords)
    THEN patterns_config[3].score
    ELSE IF Contains(situation_pattern, Threatened)
            /\ AnyKeyword(user_input, patterns_config[4].keywords)
    THEN patterns_config[4].score
    ELSE 0

\* the if/elif chain of the keyword branch
\* (variant) the highest score among the archetypes whose label is in the
\* key and whose keywords the utterance holds
KeywordScoreHighest(situation_pattern, user_input) ==
    LET satisfied(k) ==
            /\ Contains(situation_pattern, patterns_config[k].key)
            /\ IF k = 1 THEN Contains(user_input, <<"?">>)
               ELSE AnyKeyword(lower(user_input), patterns_config[k].keywords)
        scores == {patterns_config[k].score : k \in {j \in 1..4 : satisfied(j)}}
    IN  IF scores = {} THEN 0
        ELSE CHOOSE score \in scores : \A other \in scores : other <= score

KeywordScore(situation_pattern, user_input) ==
    IF Contains(situation_pattern, PersonalQuestion) /\ Contains(user_input, <<"?">>)
    THEN patterns_config[1].score
    ELSE IF Contains(situation_pattern, Criticized)
            /\ AnyKeyword(lower(user_input), patterns_config[2].keywords)
    THEN patterns_config[2].score
    ELSE IF Contains(situation_pattern, Complimented)
            /\ AnyKeyword(lower(user_input), patterns_config[3].keywords)
    THEN patterns_config[3].score
    ELSE IF Contains(situation_pattern, Threatened)
            /\ AnyKeyword(lower(user_input), patterns_config[4].keywords)
    THEN patterns_config[4].score
    ELSE 0

\* (variant) the regex is searched in the lower-cased input
RegexHaystackLowered(user_input) == lower(user_input)

\* the text the regex is searched in: user_input, not user_input_lower
RegexHaystack(user_input) == user_input

match_decision_pattern(user_input, pattern) ==
    LET situation_pattern == Get(pattern, "if_situation", <<>>)
        is_regex == Get(pattern, "is_regex", FALSE)
    IN  IF is_regex
        THEN IF re_error(situation_pattern)
             THEN RegexErrorScore(situation_pattern)
             ELSE IF re_search(situation_pattern, RegexHaystack(user_input))
                  THEN RegexMatchScore(situation_pattern)
                  ELSE 0
        ELSE KeywordScore(situation_pattern, user_input)

\* whether _match_decision_pattern lets an exception escape
match_raises(user_input, pattern) ==
    /\ Get(pattern, "is_regex", FALSE)
    /\ re_error(Get(pattern, "if_situation", <<>>))
    /\ ~re_error_caught

(***************************************************************************)
(* DecisionEngine._check_for_keywords                                      *)
(***************************************************************************)
\* (variant) the keywords are looked up in the input as typed
KeywordHaystackAsTyped(user_input) == user_input

\* the text the keywords are looked up in
KeywordHaystack(user_input) == lower(user_input)

check_for_keywords(user_input, keywords) ==
    \E k \in 1..Len(keywords) :
        Contains(KeywordHaystack(user_input), lower(keywords[k]))

(***************************************************************************)
(* DecisionEngine._detect_sentiment_in_input                               *)
(***************************************************************************)
positive_keywords ==
    << <<"g","o","o","d">>, <<"g","r","e","a","t">>, <<"h","a","p","p","y">>, <<"l","o","v","e">>, <<"e","x","c","e","l","l","e","n","t">>, <<"a","m","a","z","i","n","g">>,
       <<"w","o","n","d","e","r","f","u","l">>, <<"n","i","c","e">>, <<"s","u","p","e","r">> >>

\* (variant) the negative keywords without the phrase that nests "good"
negative_words_only ==
    << <<"b","a","d">>, <<"t","e","r","r","i","b","l","e">>, <<"s","a","d">>, <<"h","a","t","e">>, <<"w","r","o","n","g">>, <<"a","w","f","u","l">>, <<"m","i","s","t","a","k","e">>,
       <<"a","n","n","o","y","i","n","g">> >>

negative_keywords ==
    << <<"b","a","d">>, <<"t","e","r","r","i","b","l","e">>, <<"s","a","d">>, <<"h","a","t","e">>, <<"w","r","o","n","g">>, <<"a","w","f","u","l">>, <<"m","i","s","t","a","k","e">>,
       <<"n","o","t"," ","g","o","o","d">>, <<"a","n","n","o","y","i","n","g">> >>

RECURSIVE SumCounts(_, _, _)
SumCounts(text, keywords, k) ==
    IF k > Len(keywords) THEN 0
    ELSE count(text, keywords[k]) + SumCounts(text, keywords, k + 1)

\* (variant) neutral as soon as no positive keyword is found
NeutralScoreOfPositive(positive_score, negative_score) ==
    IF positive_score = 0 THEN ScoreUnit ELSE 0

\* neutral_score: 1.0 if no positive and no negative keyword is found
NeutralScore(positive_score, negative_score) ==
    IF positive_score = 0 /\ negative_score = 0 THEN ScoreUnit ELSE 0

detect_sentiment_in_input(user_input) ==
    IF user_input = <<>>
    THEN [positive_score |-> 0, negative_score |-> 0, neutral_score |-> ScoreUnit]
    ELSE LET positive_score == SumCounts(lower(user_input), positive_keywords, 1) * ScoreUnit
             negative_score == SumCounts(lower(user_input), negative_keywords, 1) * ScoreUnit
         IN  [positive_score |-> positive_score,
              negative_score |-> negative_score,
              neutral_score |-> NeutralScore(positive_score, negative_score)]

\* an argument that may be None: [given |-> FALSE], or [given |-> TRUE, text |-> a str]
None == [given |-> FALSE]

Str(text) == [given |-> TRUE, text |-> text]

\* `not user_input` on such an argument: None or the empty string
IsFalsy(arg) == ~arg.given \/ arg.text = <<>>

\* _detect_sentiment_in_input called with an argument that may be None
detect_sentiment_in_optional_input(arg) ==
    IF IsFalsy(arg)
    THEN [positive_score |-> 0, negative_score |-> 0, neutral_score |-> ScoreUnit]
    ELSE detect_sentiment_in_input(arg.text)

(***************************************************************************)
(* DecisionEngine._analyze_conversation_history                            *)
(***************************************************************************)
Max(a, b) == IF a >= b THEN a ELSE b

\* seq[-n:]
LastN(seq, n) == SubSeq(seq, Max(1, Len(seq) - n + 1), Len(seq))

\* (variant) [turn.get('user', '') for turn in self.conversation_history]
UserUtterancesOrEmpty(history) ==
    [i \in 1..Len(history) |->
        IF "user" \in DOMAIN history[i] THEN history[i].user ELSE <<>>]

\* [turn['user'] for turn in self.conversation_history if 'user' in turn]
RECURSIVE UserUtterances(_)
UserUtterances(history) ==
    IF history = <<>> THEN <<>>
    ELSE IF "user" \in DOMAIN Head(history)
         THEN <<Head(history).user>> \o UserUtterances(Tail(history))
         ELSE UserUtterances(Tail(history))

Whitespace == {" ", "\t", "\n"}

\* str.split(): the maximal runs of non-whitespace characters
RECURSIVE SplitFrom(_, _, _)
SplitFrom(text, i, word) ==
    IF i > Len(text)
    THEN IF word = <<>> THEN <<>> ELSE <<word>>
    ELSE IF text[i] \in Whitespace
         THEN (IF word = <<>> THEN <<>> ELSE <<word>>) \o SplitFrom(text, i + 1, <<>>)
         ELSE SplitFrom(text, i + 1, Append(word, text[i]))

split(text) == SplitFrom(text, 1, <<>>)

\* (variant) the words are kept as typed
TopicWordsAsTyped(text) ==
    SelectSeq(split(text), LAMBDA word : Len(word) > 4)

\* [word.lower() for word in text.split() if len(word) > 4]
TopicWordsOf(text) ==
    LET kept == SelectSeq(split(text), LAMBDA word : Len(word) > 4)
    IN  [i \in 1..Len(kept) |-> lower(kept[i])]

RECURSIVE Flatten(_)
Flatten(seqs) == IF seqs = <<>> THEN <<>> ELSE Head(seqs) \o Flatten(Tail(seqs))

Occurrences(words, w) == Cardinality({i \in 1..Len(words) : words[i] = w})

\* the distinct words, in the order of their first occurrence (Counter's keys)
RECURSIVE Distinct(_, _)
Distinct(words, seen) ==
    IF words = <<>> THEN seen
    ELSE IF \E i \in 1..Len(seen) : seen[i] = Head(words)
         THEN Distinct(Tail(words), seen)
         ELSE Distinct(Tail(words), Append(seen, Head(words)))

\* a stable insertion into a sequence kept in descending order of key
RECURSIVE InsertDescending(_, _)
InsertDescending(sorted, x) ==
    IF sorted = <<>> THEN <<x>>
    ELSE IF Head(sorted).key >= x.key
         THEN <<Head(sorted)>> \o InsertDescending(Tail(sorted), x)
         ELSE <<x>> \o sorted

\* list.sort(key=..., reverse=True) on [key, item] pairs: descending by key,
\* equal keys in their input order
RECURSIVE SortDescending(_, _)
SortDescending(pairs, done) ==
    IF pairs = <<>> THEN done
    ELSE SortDescending(Tail(pairs), InsertDescending(done, Head(pairs)))

\* [item[0] for item in Counter(words).most_common(n)]
most_common(words, n) ==
    LET keys == Distinct(words, <<>>)
        ranked == SortDescending(
            [i \in 1..Len(keys) |-> [key |-> Occurrences(words, keys[i]), item |-> keys[i]]],
            <<>>)
    IN  [i \in 1..(IF Len(ranked) < n THEN Len(ranked) ELSE n) |-> ranked[i].item]

emotional_keywords == { <<"a","n","g","r","y">>, <<"h","a","p","p","y">>, <<"s","a","d">> }

\* user_utterances[-5:]
TopicWindow(user_utterances) == LastN(user_utterances, 5)

\* (variant) user_utterances[-3:]: the latest utterance is looked at too
PendingWindowWithLatest(user_utterances) == LastN(user_utterances, 3)

\* user_utterances[-4:-1]
PendingWindow(user_utterances) ==
    SubSeq(user_utterances, Max(1, Len(user_utterances) - 3),
           Len(user_utterances) - 1)

\* (variant) every user utterance is looked at
ToneWindowOfAll(user_utterances) == user_utterances

\* user_utterances[-3:]
ToneWindow(user_utterances) == LastN(user_utterances, 3)

analyze_conversation_history(history) ==
    LET user_utterances == UserUtterances(history)
        recent5 == TopicWindow(user_utterances)
        topic_words == Flatten([i \in 1..Len(recent5) |-> TopicWordsOf(recent5[i])])
        window == PendingWindow(user_utterances)
        recent3 == ToneWindow(user_utterances)
    IN  IF user_utterances = <<>>
        THEN [recurring_topics |-> <<>>, pending_questions |-> <<>>,
              recent_emotional_tones |-> {}]
        ELSE
        [recurring_topics |-> most_common(topic_words, 3),
         pending_questions |-> SelectSeq(window, LAMBDA text : Contains(text, <<"?">>)),
         recent_emotional_tones |->
             {tone \in emotional_keywords :
                 \E i \in 1..Len(recent3) : Contains(lower(recent3[i]), tone)}]

(***************************************************************************)
(* The inputs the model draws from                                         *)
(***************************************************************************)
\* the longest decision_patterns list of a rule set
MaxPatterns == 2

\* the longest conversation history
MaxTurns == 1

Honesty == <<"h","o","n","e","s","t","y">>

Loyalty == <<"l","o","y","a","l","t","y">>

Courage == <<"c","o","u","r","a","g","e">>

\* a value whose name is the empty string
Unnamed == <<>>

ValuePool == {Honesty, Loyalty, Courage, Unnamed}

PatternCriticized ==
    [if_situation |-> Criticized, is_regex |-> FALSE,
     then_response_style |-> "defensive", category |-> "conflict"]

PatternComplimented ==
    [if_situation |-> Complimented, then_response_style |-> "humble",
     aligns_with_values |-> <<Loyalty, Honesty>>]

PatternThreatened ==
    [if_situation |-> <<"w","h","e","n"," ","t","h","r","e","a","t","e","n","e","d">>, is_regex |-> FALSE,
     then_response_style |-> "calm", category |-> "conflict",
     aligns_with_values |-> <<Loyalty>>]

PatternQuestion ==
    [if_situation |-> PersonalQuestion, is_regex |-> FALSE,
     then_response_style |-> "candid", category |-> "interrogative",
     aligns_with_values |-> <<Unnamed, Honesty>>]

PatternBadRegex ==
    [if_situation |-> <<"(","w","r","o","n","g">>, is_regex |-> TRUE,
     then_response_style |-> "defensive", aligns_with_values |-> <<Honesty>>]

PatternRegex ==
    [if_situation |-> <<"w","r",".","n","g">>, is_regex |-> TRUE,
     then_response_style |-> "defensive", aligns_with_values |-> <<Honesty>>]

PatternPool ==
    {PatternCriticized, PatternComplimented, PatternQuestion,
     PatternBadRegex, PatternRegex}

\* the lists over a pool of at most n entries
ListsUpTo(pool, n) == UNION {[1..k -> pool] : k \in 0..n}

\* values_hierarchy and moral_framework_notes of the character profiles
ProfilePool ==
    { [values_hierarchy |-> <<>>, moral_framework_notes |-> <<>>],
      [values_hierarchy |-> <<>>, moral_framework_notes |-> <<"d","o"," ","n","o"," ","h","a","r","m">>],
      [values_hierarchy |-> <<Unnamed, Honesty>>, moral_framework_notes |-> <<>>],
      [values_hierarchy |-> <<Honesty, Loyalty>>, moral_framework_notes |-> <<>>],
      [values_hierarchy |-> <<Loyalty, Courage, Honesty>>,
       moral_framework_notes |-> <<"d","o"," ","n","o"," ","h","a","r","m">>] }

RuleSets ==
    {EmptyDict} \cup
    { [values_hierarchy |-> profile.values_hierarchy,
       moral_framework_notes |-> profile.moral_framework_notes,
       decision_patterns |-> patterns] :
         profile \in ProfilePool, patterns \in ListsUpTo(PatternPool, MaxPatterns) }

UtterancePool ==
    { <<"h","i">>, <<"W","h","y","?">>, <<"g","o","o","d"," ","W","R","O","N","G">>, <<"w","r","o","n","g"," ","d","a","n","g","e","r","?">>,
      <<"H","o","n","e","s","t","y">>, <<"l","o","y","a","l","t","y"," ","h","o","n","e","s","t","y">> }

\* the turns of the sessions that call evaluate_situation; the sessions
\* that analyse the history draw from HistoryTurnPool
TurnPool == { [user |-> <<"W","h","y","?">>, character |-> "reply"] }

(***************************************************************************)
(* Rule sets and patterns with fields left out                             *)
(***************************************************************************)
\* the dict with only these keys
Restrict(d, keys) == [k \in keys |-> d[k]]

\* a pattern with every field, in a keyword and in a regex version; the
\* regex source is an archetype label
FullKeywordPattern ==
    [if_situation |-> Criticized, is_regex |-> FALSE,
     then_response_style |-> "defensive", category |-> "conflict",
     aligns_with_values |-> <<Honesty>>]

FullRegexPattern == [FullKeywordPattern EXCEPT !.is_regex = TRUE]

\* the patterns with any subset of the fields
PartialPatterns ==
    {Restrict(pattern, keys) :
        pattern \in {FullKeywordPattern, FullRegexPattern},
        keys \in SUBSET DOMAIN FullKeywordPattern}

\* the pattern with each absent field written out as its default
FilledPattern(pattern) ==
    [if_situation |-> Get(pattern, "if_situation", <<>>),
     is_regex |-> Get(pattern, "is_regex", FALSE),
     then_response_style |-> Get(pattern, "then_response_style", ""),
     category |-> Get(pattern, "category", "general"),
     aligns_with_values |-> Get(pattern, "aligns_with_values", <<>>)]

\* the rule set with each absent field written out as its default
FilledRules(rules) ==
    [values_hierarchy |-> Get(rules, "values_hierarchy", <<>>),
     moral_framework_notes |-> Get(rules, "moral_framework_notes", <<>>),
     decision_patterns |->
         LET patterns == Get(rules, "decision_patterns", <<>>)
         IN  [i \in 1..Len(patterns) |-> FilledPattern(patterns[i])]]

\* the rule sets with any subset of the fields, over no pattern or one
PartialRuleSets ==
    {Restrict([values_hierarchy |-> <<Honesty, Loyalty>>,
               moral_framework_notes |-> <<"d","o"," ","n","o"," ","h","a","r","m">>,
               decision_patterns |-> patterns], keys) :
        patterns \in ListsUpTo(PartialPatterns, 1),
        keys \in SUBSET {"values_hierarchy", "moral_framework_notes",
                         "decision_patterns"}}

PartialUtterances == { <<"h","i">>, <<"w","r","o","n","g">>, <<"c","r","i","t","i","c","i","z","e","d"," ","h","o","n","e","s","t","y">> }

(***************************************************************************)
(* Rule sets whose patterns reach the highest scores                       *)
(***************************************************************************)
\* a regex whose source is an archetype label, aligned with a value
PatternThreatenedRegex ==
    [if_situation |-> Threatened, is_regex |-> TRUE,
     then_response_style |-> "calm", aligns_with_values |-> <<Courage, Honesty>>]

ScorePatterns ==
    {PatternThreatened, PatternThreatenedRegex, PatternComplimented,
     PatternQuestion, PatternRegex}

ScoreHierarchies ==
    { <<>>, <<Loyalty, Honesty, Courage>>, <<Honesty, Loyalty>> }

ScoreRuleSets ==
    { [values_hierarchy |-> values_hierarchy, decision_patterns |-> patterns] :
         values_hierarchy \in ScoreHierarchies,
         patterns \in ListsUpTo(ScorePatterns, MaxPatterns) }

ScoreUtterances ==
    { <<"h","i">>, <<"d","a","n","g","e","r">>, <<"G","r","e","a","t"," ","d","a","n","g","e","r","?">>, <<"t","h","r","e","a","t","e","n","e","d">>, <<"w","r","o","n","g">> }

AllUtterances == UtterancePool \cup PartialUtterances \cup ScoreUtterances

AllPatterns ==
    PatternPool \cup ScorePatterns \cup PartialPatterns
    \cup {FilledPattern(pattern) : pattern \in PartialPatterns}

(***************************************************************************)
(* The helpers applied to every input of the pools, once: the engine's     *)
(* calls below look their results up here.                                 *)
(***************************************************************************)
Histories == ListsUpTo(TurnPool, MaxTurns)

SentimentOf == [u \in AllUtterances |-> detect_sentiment_in_input(u)]

MatchScoreOf ==
    [u \in AllUtterances |-> [p \in AllPatterns |-> match_decision_pattern(u, p)]]

MatchRaisesOf ==
    [u \in AllUtterances |-> [p \in AllPatterns |-> match_raises(u, p)]]

MentionsOf ==
    [u \in AllUtterances |-> [v \in ValuePool |-> check_for_keywords(u, <<v>>)]]

HistoryAnalysisOf == [h \in Histories |-> analyze_conversation_history(h)]

(***************************************************************************)
(* DecisionEngine._weigh_against_value_hierarchy                           *)
(***************************************************************************)
\* list.index(value): the first position, counted from 0
index(list, value) == (CHOOSE i \in 1..Len(list) :
                          /\ list[i] = value
                          /\ \A j \in 1..(i - 1) : list[j] # value) - 1

IsIn(list, value) == \E i \in 1..Len(list) : list[i] = value

\* (variant) bonus = 2.0 * (idx + 1)
AlignmentBonusGrowing(idx) == (2 * ScoreUnit) * (idx + 1)

\* bonus = 2.0 / (idx + 1)
AlignmentBonus(idx) == (2 * ScoreUnit) \div (idx + 1)

\* the loop over aligns_with_values; best has no "value" while
\* best_alignment_value is None
RECURSIVE BestAlignment(_, _, _, _)
BestAlignment(aligns_with_values, values_hierarchy, i, best) ==
    IF i > Len(aligns_with_values) THEN best
    ELSE LET value_name == aligns_with_values[i]
         IN  IF /\ IsIn(values_hierarchy, value_name)
                /\ AlignmentBonus(index(values_hierarchy, value_name)) > best.bonus
             THEN BestAlignment(aligns_with_values, values_hierarchy, i + 1,
                      [bonus |-> AlignmentBonus(index(values_hierarchy, value_name)),
                       value |-> value_name])
             ELSE BestAlignment(aligns_with_values, values_hierarchy, i + 1, best)

\* (variant) the bonus replaces the score
AdjustedScoreOfBonusAlone(original_score, bonus) == bonus

\* the score the adjusted copy gets
AdjustedScore(original_score, bonus) == original_score + bonus

AdjustMatch(pattern_match, values_hierarchy) ==
    LET config == Get(pattern_match, "pattern", EmptyDict)
        aligns_with_values == Get(config, "aligns_with_values", <<>>)
        best == BestAlignment(aligns_with_values, values_hierarchy, 1, [bonus |-> 0])
        original_score == pattern_match.score
    IN  IF "value" \in DOMAIN best /\ best.value # <<>> /\ best.bonus > 0
        THEN Put(Put(pattern_match, "score", AdjustedScore(original_score, best.bonus)),
                 "value_alignment",
                 [value |-> best.value,
                  original_score |-> original_score,
                  bonus |-> best.bonus,
                  final_score |-> AdjustedScore(original_score, best.bonus)])
        ELSE pattern_match

\* adjusted_patterns.sort(key=lambda p: p['score'], reverse=True)
SortByScore(adjusted_patterns) ==
    LET sorted == SortDescending(
            [i \in 1..Len(adjusted_patterns) |->
                [key |-> adjusted_patterns[i].score, item |-> adjusted_patterns[i]]],
            <<>>)
    IN  [i \in 1..Len(sorted) |-> sorted[i].item]

\* (variant) no early return: the matches are adjusted and sorted whatever
\* the hierarchy is
weigh_without_early_return(matched_patterns, rules) ==
    LET values_hierarchy == Get(rules, "values_hierarchy", <<>>)
    IN  SortByScore([i \in 1..Len(matched_patterns) |->
                        AdjustMatch(matched_patterns[i], values_hierarchy)])

weigh_against_value_hierarchy(matched_patterns, rules) ==
    LET values_hierarchy == Get(rules, "values_hierarchy", <<>>)
    IN  IF values_hierarchy = <<>>
        THEN matched_patterns
        ELSE SortByScore([i \in 1..Len(matched_patterns) |->
                             AdjustMatch(matched_patterns[i], values_hierarchy)])

(***************************************************************************)
(* DecisionEngine.evaluate_situation                                       *)
(***************************************************************************)
TierA == "Respond naturally based on character voice."

TierB == "Respond naturally based on character voice, considering context."

\* (variant) the engine keeps one dict and updates it on every call
KeptGuidance(previous) == previous

\* the dict the call starts from; previous is the dict of the call before
NewGuidance(previous) == [matched_patterns |-> <<>>]

\* (variant) an absent category is copied as the empty string
RawMatchWithCategoryAsWritten(pattern_config, score) ==
    [pattern |-> pattern_config,
     score |-> score,
     response_style |-> Get(pattern_config, "then_response_style", ""),
     category |-> Get(pattern_config, "category", "")]

\* (variant) the threshold is inclusive
PassesThresholdInclusive(score) == score >= 5 * ScoreUnit

\* the initial threshold for considering a pattern
PassesThreshold(score) == score > 5 * ScoreUnit

RawMatch(pattern_config, score) ==
    [pattern |-> pattern_config,
     score |-> score,
     response_style |-> Get(pattern_config, "then_response_style", ""),
     category |-> Get(pattern_config, "category", "general")]

RECURSIVE RawMatchedPatterns(_, _)
RawMatchedPatterns(user_input, decision_patterns) ==
    IF decision_patterns = <<>> THEN <<>>
    ELSE LET pattern_config == Head(decision_patterns)
             score == MatchScoreOf[user_input][pattern_config]
         IN  (IF PassesThreshold(score) THEN <<RawMatch(pattern_config, score)>> ELSE <<>>)
             \o RawMatchedPatterns(user_input, Tail(decision_patterns))

\* triggered_values, after its sort by hierarchy index
TriggeredValues(user_input, values_hierarchy) ==
    LET triggered == SelectSeq(values_hierarchy,
                               LAMBDA value : MentionsOf[user_input][value])
        sorted == SortDescending(
            [i \in 1..Len(triggered) |->
                [key |-> 0 - index(values_hierarchy, triggered[i]), item |-> triggered[i]]],
            <<>>)
    IN  [i \in 1..Len(sorted) |-> sorted[i].item]

WithPrioritizedValues(g, user_input, rules) ==
    LET values_hierarchy == Get(rules, "values_hierarchy", <<>>)
        triggered_values == TriggeredValues(user_input, values_hierarchy)
    IN  IF values_hierarchy # <<>> /\ triggered_values # <<>>
        THEN Put(g, "prioritized_values", triggered_values)
        ELSE g

WithMoralFramework(g, rules) ==
    LET moral_framework == Get(rules, "moral_framework_notes", <<>>)
    IN  IF moral_framework # <<>> THEN Put(g, "moral_framework", moral_framework) ELSE g

\* (variant) the confidence is read from the last match
TopDecisionConfidenceOfLast(matched_patterns) ==
    IF matched_patterns # <<>>
    THEN matched_patterns[Len(matched_patterns)].score ELSE 0

\* guidance['top_decision_confidence']
TopDecisionConfidence(matched_patterns) ==
    IF matched_patterns # <<>> THEN matched_patterns[1].score ELSE 0

\* (variant) the low-confidence test comes first
WithDefaultApproachContextFirst(g) ==
    LET no_prioritized_values == Get(g, "prioritized_values", <<>>) = <<>>
        no_moral_framework == Get(g, "moral_framework", <<>>) = <<>>
        no_matched_patterns == Get(g, "matched_patterns", <<>>) = <<>>
        sentiment == Get(g, "current_sentiment", EmptyDict)
        neutral_sentiment == ~ (\/ Get(sentiment, "positive_score", 0) > 0
                                \/ Get(sentiment, "negative_score", 0) > 0)
        low_confidence == Get(g, "top_decision_confidence", 0) <= 5 * ScoreUnit
    IN  IF no_prioritized_values /\ no_moral_framework /\ low_confidence
           /\ neutral_sentiment
        THEN Put(g, "default_approach", TierB)
        ELSE IF no_prioritized_values /\ no_moral_framework /\ no_matched_patterns
                /\ neutral_sentiment
        THEN Put(g, "default_approach", TierA)
        ELSE g

\* (variant) two independent ifs: the later write wins
WithDefaultApproachLastWriteWins(g) ==
    LET no_prioritized_values == Get(g, "prioritized_values", <<>>) = <<>>
        no_moral_framework == Get(g, "moral_framework", <<>>) = <<>>
        no_matched_patterns == Get(g, "matched_patterns", <<>>) = <<>>
        sentiment == Get(g, "current_sentiment", EmptyDict)
        neutral_sentiment == ~ (\/ Get(sentiment, "positive_score", 0) > 0
                                \/ Get(sentiment, "negative_score", 0) > 0)
        low_confidence == Get(g, "top_decision_confidence", 0) <= 5 * ScoreUnit
        tier_a == IF no_prioritized_values /\ no_moral_framework
                     /\ no_matched_patterns /\ neutral_sentiment
                  THEN Put(g, "default_approach", TierA)
                  ELSE g
    IN  IF no_prioritized_values /\ no_moral_framework /\ low_confidence
           /\ neutral_sentiment
        THEN Put(tier_a, "default_approach", TierB)
        ELSE tier_a

\* the if/elif that sets default_approach
WithDefaultApproach(g) ==
    LET no_prioritized_values == Get(g, "prioritized_values", <<>>) = <<>>
        no_moral_framework == Get(g, "moral_framework", <<>>) = <<>>
        no_matched_patterns == Get(g, "matched_patterns", <<>>) = <<>>
        sentiment == Get(g, "current_sentiment", EmptyDict)
        neutral_sentiment == ~ (\/ Get(sentiment, "positive_score", 0) > 0
                                \/ Get(sentiment, "negative_score", 0) > 0)
        low_confidence == Get(g, "top_decision_confidence", 0) <= 5 * ScoreUnit
    IN  IF no_prioritized_values /\ no_moral_framework /\ no_matched_patterns
           /\ neutral_sentiment
        THEN Put(g, "default_approach", TierA)
        ELSE IF no_prioritized_values /\ no_moral_framework /\ low_confidence
                /\ neutral_sentiment
        THEN Put(g, "default_approach", TierB)
        ELSE g

evaluate_situation(user_input, rules, history, previous) ==
    LET history_analysis == HistoryAnalysisOf[history]
        sentiment_scores == SentimentOf[user_input]
        g1 == Put(Put(Put(Put(NewGuidance(previous),
                  "recurring_topics", history_analysis.recurring_topics),
                  "pending_questions", history_analysis.pending_questions),
                  "recent_emotional_tones", history_analysis.recent_emotional_tones),
                  "current_sentiment", sentiment_scores)
        g2 == WithMoralFramework(WithPrioritizedValues(g1, user_input, rules), rules)
        decision_patterns == Get(rules, "decision_patterns", <<>>)
        matched == weigh_against_value_hierarchy(
                       RawMatchedPatterns(user_input, decision_patterns), rules)
        g3 == Put(Put(g2, "matched_patterns", matched),
                  "top_decision_confidence", TopDecisionConfidence(matched))
    IN  IF \E i \in 1..Len(decision_patterns) : MatchRaisesOf[user_input][decision_patterns[i]]
        THEN [exception |-> "re.error"]
        ELSE WithDefaultApproach(g3)

(***************************************************************************)
(* The engine in a session: the profile is fixed, the orchestrator appends *)
(* turns to the history and calls evaluate_situation.                      *)
(***************************************************************************)
NotCalled == [made |-> FALSE]

NotProbed == [fn |-> "none"]

Init ==
    /\ decision_rules \in RuleSets
    /\ conversation_history = <<>>
    /\ call = NotCalled
    /\ guidance = EmptyDict
    /\ recorded = NotCalled
    /\ probe = NotProbed

\* (variant) the call reorders the profile's decision_patterns in place
InputsAfterReorderingInPlace(rules, history) ==
    [decision_rules |->
         IF "decision_patterns" \in DOMAIN rules
         THEN [rules EXCEPT !.decision_patterns =
                  [i \in 1..Len(@) |-> @[Len(@) + 1 - i]]]
         ELSE rules,
     conversation_history |-> history]

\* the profile's decision_rules and the history as a call leaves them: every
\* list and dict the call writes to (guidance, triggered_values,
\* raw_matched_patterns, the copies of the matches, adjusted_patterns) is
\* created by the call, so the inputs keep their contents
InputsAfterCall(rules, history) ==
    [decision_rules |-> rules, conversation_history |-> history]

\* guidance = decision_engine.evaluate_situation(user_input); a recorded call
\* notes whether a call with other inputs has followed it
EvaluateSituation(user_input) ==
    /\ call' = [made |-> TRUE, user_input |-> user_input,
                history |-> conversation_history]
    /\ guidance' = evaluate_situation(user_input, decision_rules,
                                      conversation_history, guidance)
    /\ recorded' = IF /\ recorded.made
                      /\ \/ recorded.user_input # user_input
                         \/ recorded.history # conversation_history
                   THEN [recorded EXCEPT !.other_calls = TRUE]
                   ELSE recorded
    /\ decision_rules' =
           InputsAfterCall(decision_rules, conversation_history).decision_rules
    /\ conversation_history' =
           InputsAfterCall(decision_rules, conversation_history).conversation_history
    /\ UNCHANGED probe

\* conversation_history.append(turn)
AppendTurn(turn) ==
    /\ Len(conversation_history) < MaxTurns
    /\ conversation_history' = Append(conversation_history, turn)
    /\ UNCHANGED <<decision_rules, call, guidance, recorded, probe>>

Next ==
    \/ \E user_input \in UtterancePool : EvaluateSituation(user_input)
    \/ \E turn \in TurnPool : AppendTurn(turn)

Spec == Init /\ [][Next]_vars

(***************************************************************************)
(* The same session with an observer that keeps one earlier call and its   *)
(* result, to compare later calls against.                                 *)
(***************************************************************************)
IdemRuleSets ==
    {rules \in RuleSets :
        Get(rules, "decision_patterns", <<>>) \in
            {<<>>, <<PatternComplimented, PatternCriticized>>}}

InitIdem == Init /\ decision_rules \in IdemRuleSets

Record ==
    /\ call.made
    /\ recorded' = [made |-> TRUE, user_input |-> call.user_input,
                    history |-> call.history, guidance |-> guidance,
                    other_calls |-> FALSE]
    /\ UNCHANGED <<decision_rules, conversation_history, call, guidance, probe>>

NextIdem ==
    \/ \E user_input \in UtterancePool : EvaluateSituation(user_input)
    \/ \E turn \in TurnPool : AppendTurn(turn)
    \/ Record

SpecIdem == InitIdem /\ [][NextIdem]_vars

(***************************************************************************)
(* _match_decision_pattern applied directly to one utterance and pattern   *)
(***************************************************************************)
MatchUtterances ==
    { <<"h","i">>, <<"W","h","y","?">>, <<"w","r","o","n","g">>, <<"W","R","O","N","G">>, <<"t","h","a","t"," ","w","a","s"," ","B","a","d">>, <<"g","r","e","a","t">>,
      <<"G","r","e","a","t","?">>, <<"d","a","n","g","e","r">>, <<"W","a","t","c","h"," ","O","u","t">>, <<"c","r","i","t","i","c","i","z","e","d">>, <<"g","o","o","d"," ","m","i","s","t","a","k","e">>,
      <<"b","e"," ","c","a","r","e","f","u","l","?">>, <<"w","r","o","n","g"," ","d","a","n","g","e","r">> }

MatchPatterns ==
    { PatternCriticized, PatternComplimented, PatternThreatened, PatternQuestion,
      PatternBadRegex, PatternRegex,
      [if_situation |-> <<"i","f"," ","c","r","i","t","i","c","i","z","e","d"," ","h","a","r","s","h","l","y">>, is_regex |-> FALSE],
      [if_situation |-> <<"g","r","e","e","t","e","d">>, is_regex |-> FALSE],
      [if_situation |-> <<"C","r","i","t","i","c","i","z","e","d">>, is_regex |-> FALSE],
      [if_situation |-> <<"c","r","i","t","i","c","i","z","e","d"," ","o","r"," ","t","h","r","e","a","t","e","n","e","d">>, is_regex |-> FALSE],
      [if_situation |-> <<"t","h","r","e","a","t","e","n","e","d",","," ","o","r"," ","a","s","k","e","d"," ","a"," ","d","i","r","e","c","t"," ","p","e","r","s","o","n","a","l"," ","q","u","e","s","t","i","o","n">>],
      [if_situation |-> <<"c","o","m","p","l","i","m","e","n","t","e","d"," ","t","h","e","n"," ","c","r","i","t","i","c","i","z","e","d">>, is_regex |-> FALSE],
      [if_situation |-> Criticized, is_regex |-> TRUE],
      [if_situation |-> <<"(","c","r","i","t","i","c","i","z","e","d",")">>, is_regex |-> TRUE],
      [then_response_style |-> "plain"] }

InitMatch ==
    /\ decision_rules = EmptyDict
    /\ conversation_history = <<>>
    /\ call = NotCalled
    /\ guidance = EmptyDict
    /\ recorded = NotCalled
    /\ probe = NotProbed

MatchDecisionPattern(user_input, pattern) ==
    /\ probe' = [fn |-> "_match_decision_pattern", user_input |-> user_input,
                 pattern |-> pattern,
                 score |-> match_decision_pattern(user_input, pattern)]
    /\ UNCHANGED <<decision_rules, conversation_history, call, guidance, recorded>>

NextMatch ==
    \E user_input \in MatchUtterances, pattern \in MatchPatterns :
        MatchDecisionPattern(user_input, pattern)

SpecMatch == InitMatch /\ [][NextMatch]_vars

(***************************************************************************)
(* _detect_sentiment_in_input applied directly to one argument             *)
(***************************************************************************)
\* the longest utterance, in words, the sentiment probe builds
MaxWords == 3

SentimentWords == { <<"n","o","t">>, <<"g","o","o","d">>, <<"B","a","d">>, <<"h","a","p","p","y">>, <<"t","h","a","t">> }

\* " ".join(words)
RECURSIVE JoinWords(_)
JoinWords(words) ==
    IF words = <<>> THEN <<>>
    ELSE IF Len(words) = 1 THEN Head(words)
    ELSE Head(words) \o <<" ">> \o JoinWords(Tail(words))

NotGoodThatWasBad == <<"n","o","t"," ","g","o","o","d",","," ","t","h","a","t"," ","w","a","s"," ","b","a","d">>

SentimentArguments ==
    {None, Str(NotGoodThatWasBad)}
    \cup {Str(JoinWords(words)) : words \in ListsUpTo(SentimentWords, MaxWords)}

SentimentOfArgument ==
    [arg \in SentimentArguments |-> detect_sentiment_in_optional_input(arg)]

InitSentiment ==
    /\ decision_rules = EmptyDict
    /\ conversation_history = <<>>
    /\ call = NotCalled
    /\ guidance = EmptyDict
    /\ recorded = NotCalled
    /\ probe = NotProbed

DetectSentimentInInput(arg) ==
    /\ probe' = [fn |-> "_detect_sentiment_in_input", user_input |-> arg,
                 scores |-> SentimentOfArgument[arg]]
    /\ UNCHANGED <<decision_rules, conversation_history, call, guidance, recorded>>

NextSentiment == \E arg \in SentimentArguments : DetectSentimentInInput(arg)

SpecSentiment == InitSentiment /\ [][NextSentiment]_vars

(***************************************************************************)
(* The session of an engine whose profile leaves fields out                *)
(***************************************************************************)
InitAbsent ==
    /\ decision_rules \in PartialRuleSets
    /\ conversation_history = <<>>
    /\ call = NotCalled
    /\ guidance = EmptyDict
    /\ recorded = NotCalled
    /\ probe = NotProbed

NextAbsent ==
    \/ \E user_input \in PartialUtterances : EvaluateSituation(user_input)
    \/ \E turn \in TurnPool : AppendTurn(turn)

SpecAbsent == InitAbsent /\ [][NextAbsent]_vars

(***************************************************************************)
(* _analyze_conversation_history applied to the history the orchestrator   *)
(* has appended so far                                                     *)
(***************************************************************************)
\* the longest history the analysis is applied to
MaxHistory == 6

HistoryTurnPool ==
    { [user |-> <<"W","h","y"," ","s","o"," ","A","N","G","R","Y","?">>, character |-> "reply"],
      [user |-> <<"h","a","p","p","y"," ","S","t","o","r","y"," ","s","t","o","r","y"," ","t","a","l","e">>],
      [user |-> <<"d","r","a","g","o","n","s"," ","s","t","o","r","y"," ","s","a","d","?">>],
      [character |-> "greeting"] }

InitHistory ==
    /\ decision_rules = EmptyDict
    /\ conversation_history = <<>>
    /\ call = NotCalled
    /\ guidance = EmptyDict
    /\ recorded = NotCalled
    /\ probe = NotProbed

\* conversation_history.append(turn), in a longer session; an analysis made
\* of the shorter history is not kept
AppendToHistory(turn) ==
    /\ Len(conversation_history) < MaxHistory
    /\ conversation_history' = Append(conversation_history, turn)
    /\ probe' = NotProbed
    /\ UNCHANGED <<decision_rules, call, guidance, recorded>>

AnalyzeConversationHistory ==
    /\ probe' = [fn |-> "_analyze_conversation_history",
                 history |-> conversation_history,
                 analysis |-> analyze_conversation_history(conversation_history)]
    /\ UNCHANGED <<decision_rules, conversation_history, call, guidance, recorded>>

NextHistory ==
    \/ \E turn \in HistoryTurnPool : AppendToHistory(turn)
    \/ AnalyzeConversationHistory

SpecHistory == InitHistory /\ [][NextHistory]_vars


(***************************************************************************)
(* ConversationManager: the orchestrator that owns the history, builds the *)
(* engine and calls it once per user input                                 *)
(***************************************************************************)
\* the most process_user_input calls made on one manager
MaxInputs == 3

\* def __init__(self, character_profile, conversation_history)
DecisionEngineParameters == <<"character_profile", "conversation_history">>

\* def evaluate_situation(self, user_input)
EvaluateSituationParameters == <<"user_input">>

TypeError == [exception |-> "TypeError"]

\* a call with positional arguments of a function whose parameters have no
\* defaults: the arguments bound to the parameters, or a TypeError when
\* there are too few or too many
BindArguments(parameters, arguments) ==
    IF Len(arguments) = Len(parameters)
    THEN [name \in {parameters[i] : i \in 1..Len(parameters)} |->
             arguments[CHOOSE i \in 1..Len(parameters) : parameters[i] = name]]
    ELSE TypeError

Raises(outcome) == "exception" \in DOMAIN outcome

\* llm_interface.get_llm_response(prompt)
ResponsePool == {"reply", "Goodbye!"}

NoManager == [fn |-> "ConversationManager", constructed |-> FALSE,
              raised |-> "none", inputs |-> 0]

\* a manager object whose attributes are those of lines 31-35, its
\* decision_engine an engine holding the profile and the manager's history
ManagerWithEngine == [fn |-> "ConversationManager", constructed |-> TRUE,
                      raised |-> "none", inputs |-> 0]

\* before ConversationManager(character_profile, llm_interface) is called,
\* or with a manager a host put together itself around a working engine
InitManager ==
    /\ decision_rules \in RuleSets
    /\ conversation_history = <<>>
    /\ call = NotCalled
    /\ guidance = EmptyDict
    /\ recorded = NotCalled
    /\ probe \in {NotProbed, ManagerWithEngine}

\* ConversationManager.__init__: self.decision_engine = DecisionEngine()
ConversationManagerInit ==
    /\ probe = NotProbed
    /\ LET bound == BindArguments(DecisionEngineParameters, <<>>)
       IN  probe' = IF Raises(bound)
                    THEN [NoManager EXCEPT !.raised = bound.exception]
                    ELSE ManagerWithEngine
    /\ UNCHANGED <<decision_rules, conversation_history, call, guidance, recorded>>

\* ConversationManager.process_user_input: evaluate, build the prompt, ask
\* the LLM, append the turn; an exception leaves the method at once
ProcessUserInput(user_input) ==
    /\ probe.fn = "ConversationManager"
    /\ probe.constructed
    /\ probe.inputs < MaxInputs
    /\ LET bound == BindArguments(EvaluateSituationParameters,
                                  <<user_input, decision_rules>>)
       IN  IF Raises(bound)
           THEN /\ probe' = [probe EXCEPT !.inputs = @ + 1,
                                          !.raised = bound.exception]
                /\ UNCHANGED <<decision_rules, conversation_history, call,
                               guidance, recorded>>
           ELSE /\ probe' = [probe EXCEPT !.inputs = @ + 1, !.raised = "none"]
                /\ call' = [made |-> TRUE, user_input |-> bound.user_input,
                            history |-> conversation_history]
                /\ guidance' = evaluate_situation(bound.user_input, decision_rules,
                                                  conversation_history, guidance)
                /\ \E character_response \in ResponsePool :
                       conversation_history' =
                           Append(conversation_history,
                                  [user |-> user_input,
                                   character |-> character_response])
                /\ UNCHANGED <<decision_rules, recorded>>

NextManager ==
    \/ ConversationManagerInit
    \/ \E user_input \in UtterancePool : ProcessUserInput(user_input)

SpecManager == InitManager /\ [][NextManager]_vars

(***************************************************************************)
(* The session of an engine whose patterns reach the highest scores        *)
(***************************************************************************)
InitScore ==
    /\ decision_rules \in ScoreRuleSets
    /\ conversation_history = <<>>
    /\ call = NotCalled
    /\ guidance = EmptyDict
    /\ recorded = NotCalled
    /\ probe = NotProbed

NextScore == \E user_input \in ScoreUtterances : EvaluateSituation(user_input)

SpecScore == InitScore /\ [][NextScore]_vars

(***************************************************************************)
(* _weigh_against_value_hierarchy applied directly to a list of matches    *)
(***************************************************************************)
\* the longest list of matches the adjuster is applied to
MaxMatches == 3

\* matches as evaluate_situation builds them, and one scoring the flat 5.0
MatchPool ==
    { RawMatch(PatternThreatened, 9 * ScoreUnit),
      RawMatch(PatternQuestion, 7 * ScoreUnit),
      RawMatch(PatternCriticized, 8 * ScoreUnit),
      RawMatch(PatternRegex, 5 * ScoreUnit) }

WeighHierarchies == ScoreHierarchies \cup { <<Unnamed, Honesty>> }

InitWeigh ==
    /\ decision_rules \in {[values_hierarchy |-> values_hierarchy] :
                              values_hierarchy \in WeighHierarchies}
    /\ conversation_history = <<>>
    /\ call = NotCalled
    /\ guidance = EmptyDict
    /\ recorded = NotCalled
    /\ probe = NotProbed

WeighAgainstValueHierarchy(matched_patterns) ==
    /\ probe' = [fn |-> "_weigh_against_value_hierarchy",
                 matched_patterns |-> matched_patterns,
                 adjusted |-> weigh_against_value_hierarchy(matched_patterns,
                                                            decision_rules)]
    /\ UNCHANGED <<decision_rules, conversation_history, call, guidance, recorded>>

NextWeigh ==
    \E matched_patterns \in ListsUpTo(MatchPool, MaxMatches) :
        WeighAgainstValueHierarchy(matched_patterns)

SpecWeigh == InitWeigh /\ [][NextWeigh]_vars
(***************************************************************************)
(* Properties                                                              *)
(***************************************************************************)
\* a call has returned a guidance dict
Evaluated == call.made /\ "exception" \notin DOMAIN guidance

Matched == guidance.matched_patterns

DeclaredPatterns == Get(decision_rules, "decision_patterns", <<>>)

Hierarchy == Get(decision_rules, "values_hierarchy", <<>>)

Range(seq) == {seq[i] : i \in 1..Len(seq)}

PatternsOf(matches) == [i \in 1..Len(matches) |-> matches[i].pattern]

\* the patterns of the matches that ended with this score
PatternsScored(score) == {Matched[i].pattern : i \in {k \in 1..Len(Matched) : Matched[k].score = score}}

\* C1: matched_patterns is sorted non-increasing by score, and matches of
\* equal score are in the order their patterns have in decision_patterns,
\* for every rule set, one with an empty values_hierarchy included.
C1_SortedStable ==
    Evaluated =>
        /\ \A i, j \in 1..Len(Matched) :
               i < j => Matched[i].score >= Matched[j].score
        /\ \A score \in {Matched[i].score : i \in 1..Len(Matched)} :
               PatternsOf(SelectSeq(Matched, LAMBDA m : m.score = score))
                   = SelectSeq(DeclaredPatterns, LAMBDA p : p \in PatternsScored(score))

\* C2: top_decision_confidence is the score of matched_patterns[0] when
\* matched_patterns is non-empty, and 0.0 when it is empty.
C2_TopConfidence ==
    Evaluated =>
        guidance.top_decision_confidence =
            IF Matched # <<>> THEN Matched[1].score ELSE 0

C2_Witness ==
    /\ Evaluated
    /\ Len(Matched) >= 2
    /\ "value_alignment" \in DOMAIN Matched[1]
    /\ Matched[1].score > Matched[2].score
    /\ guidance.top_decision_confidence = Matched[1].score

\* C3: a call with the utterance and the history contents of an earlier call
\* of the session returns the guidance that call returned, whatever calls
\* and appends happened in between.
C3_SameInputsSameGuidance ==
    ( /\ call.made
      /\ recorded.made
      /\ call.user_input = recorded.user_input
      /\ call.history = recorded.history )
    => guidance = recorded.guidance

C3_Witness ==
    /\ call.made
    /\ recorded.made
    /\ recorded.other_calls
    /\ call.user_input = recorded.user_input
    /\ call.history = recorded.history
    /\ call.history # <<>>
    /\ guidance = recorded.guidance

\* a regex pattern whose source does not compile
Malformed(pattern) ==
    /\ Get(pattern, "is_regex", FALSE)
    /\ re_error(Get(pattern, "if_situation", <<>>))

\* the rule set without its malformed patterns
WellFormedRules ==
    IF "decision_patterns" \in DOMAIN decision_rules
    THEN [decision_rules EXCEPT !.decision_patterns =
             SelectSeq(@, LAMBDA p : ~Malformed(p))]
    ELSE decision_rules

\* C4: a malformed regex pattern scores 0.0 and nothing is raised; the call
\* returns the matched_patterns it returns for the rule set without the
\* malformed patterns.
C4_MalformedRegexIgnored ==
    call.made =>
        /\ "exception" \notin DOMAIN guidance
        /\ \A p \in Range(DeclaredPatterns) :
               Malformed(p) => match_decision_pattern(call.user_input, p) = 0
        /\ Matched = evaluate_situation(call.user_input, WellFormedRules,
                                        call.history, EmptyDict).matched_patterns

C4_Witness ==
    /\ Evaluated
    /\ DeclaredPatterns = <<PatternBadRegex, PatternCriticized>>
    /\ Len(Matched) = 1
    /\ Matched[1].pattern = PatternCriticized

Times(seq, x) == Cardinality({i \in 1..Len(seq) : seq[i] = x})

\* C5: a pattern is in matched_patterns, once per place it has in
\* decision_patterns, exactly when its raw score is strictly greater than
\* 5.0; a pattern whose raw score is exactly 5.0 is never in it.
C5_StrictThreshold ==
    Evaluated =>
        /\ \A p \in Range(DeclaredPatterns) \cup Range(PatternsOf(Matched)) :
               Times(PatternsOf(Matched), p) =
                   IF match_decision_pattern(call.user_input, p) > 5 * ScoreUnit
                   THEN Times(DeclaredPatterns, p) ELSE 0
        /\ \A i \in 1..Len(Matched) :
               match_decision_pattern(call.user_input, Matched[i].pattern) # 5 * ScoreUnit

C5_Witness ==
    /\ Evaluated
    /\ Matched # <<>>
    /\ \E p \in Range(DeclaredPatterns) :
           /\ match_decision_pattern(call.user_input, p) = 5 * ScoreUnit
           /\ p \notin Range(PatternsOf(Matched))

\* no positive and no negative keyword occurs in the utterance
NeutralUtterance(user_input) ==
    \A keyword \in Range(positive_keywords) \cup Range(negative_keywords) :
        ~Contains(lower(user_input), keyword)

ZeroSentiment ==
    /\ guidance.current_sentiment.positive_score = 0
    /\ guidance.current_sentiment.negative_score = 0

\* the Tier A condition on the returned guidance
TierACondition ==
    /\ "prioritized_values" \notin DOMAIN guidance
    /\ "moral_framework" \notin DOMAIN guidance
    /\ Matched = <<>>
    /\ ZeroSentiment

\* the Tier B condition on the returned guidance
TierBCondition ==
    /\ "prioritized_values" \notin DOMAIN guidance
    /\ "moral_framework" \notin DOMAIN guidance
    /\ guidance.top_decision_confidence <= 5 * ScoreUnit
    /\ ZeroSentiment

DefaultApproachIs(text) ==
    /\ "default_approach" \in DOMAIN guidance
    /\ guidance.default_approach = text

\* C6: with no prioritized values, no moral framework, no matched patterns
\* and zero positive and negative sentiment, default_approach is the Tier A
\* text; an empty rule set, an empty history and a neutral utterance give no
\* matches, confidence 0.0 and that text.
C6_TierADefault ==
    Evaluated =>
        /\ TierACondition =>
               DefaultApproachIs("Respond naturally based on character voice.")
        /\ ( /\ decision_rules = EmptyDict
             /\ call.history = <<>>
             /\ NeutralUtterance(call.user_input) )
           => /\ Matched = <<>>
              /\ guidance.top_decision_confidence = 0
              /\ DefaultApproachIs("Respond naturally based on character voice.")

C6_Witness ==
    /\ Evaluated
    /\ decision_rules = EmptyDict
    /\ call.history = <<>>
    /\ NeutralUtterance(call.user_input)
    /\ DefaultApproachIs("Respond naturally based on character voice.")

\* C7 as stated: when the Tier A and the Tier B condition both hold, Tier B's
\* write comes last and default_approach is the Tier B text.
C7_LastWriteWins ==
    (Evaluated /\ TierACondition /\ TierBCondition) =>
        DefaultApproachIs("Respond naturally based on character voice, considering context.")

\* C7, amended: the tiers are an if/elif, so when the Tier A and the Tier B
\* condition both hold only Tier A writes: default_approach is the Tier A
\* text, and the Tier B text is returned only when Tier A's condition fails.
C7_FirstTierWins ==
    Evaluated =>
        /\ (TierACondition /\ TierBCondition) =>
               DefaultApproachIs("Respond naturally based on character voice.")
        /\ DefaultApproachIs("Respond naturally based on character voice, considering context.")
               => ~TierACondition

C7_Witness ==
    /\ Evaluated
    /\ TierACondition
    /\ TierBCondition
    /\ call.history # <<>>
    /\ DeclaredPatterns # <<>>
    /\ DefaultApproachIs("Respond naturally based on character voice.")

\* the hierarchy positions, counted from 1, of the values a pattern aligns with
AlignedRanks(pattern) ==
    {k \in 1..Len(Hierarchy) :
        Hierarchy[k] \in Range(Get(pattern, "aligns_with_values", <<>>))}

Least(ranks) == CHOOSE r \in ranks : \A other \in ranks : r <= other

\* C8: under a non-empty values_hierarchy, a match whose pattern aligns with
\* a value of the hierarchy has score = original score + 2.0/(r+1) for the
\* smallest index r of its aligned values and carries the value_alignment
\* of that value; any other match keeps its score and carries none.
C8_BonusOfBestAlignedValue ==
    (Evaluated /\ Hierarchy # <<>>) =>
        \A i \in 1..Len(Matched) :
            LET m == Matched[i]
                original == match_decision_pattern(call.user_input, m.pattern)
                ranks == AlignedRanks(m.pattern)
            IN  IF ranks # {}
                THEN LET bonus == (2 * ScoreUnit) \div Least(ranks)
                     IN  /\ m.score = original + bonus
                         /\ "value_alignment" \in DOMAIN m
                         /\ m.value_alignment =
                                [value |-> Hierarchy[Least(ranks)],
                                 original_score |-> original,
                                 bonus |-> bonus,
                                 final_score |-> m.score]
                ELSE /\ m.score = original
                     /\ "value_alignment" \notin DOMAIN m

\* C8, for values with a name: the statement of C8 holds of every match whose
\* best-ranked aligned value is not the empty string.
C8_BonusOfBestNamedValue ==
    (Evaluated /\ Hierarchy # <<>>) =>
        \A i \in 1..Len(Matched) :
            LET m == Matched[i]
                original == match_decision_pattern(call.user_input, m.pattern)
                ranks == AlignedRanks(m.pattern)
            IN  IF ranks # {} /\ Hierarchy[Least(ranks)] # <<>>
                THEN LET bonus == (2 * ScoreUnit) \div Least(ranks)
                     IN  /\ m.score = original + bonus
                         /\ "value_alignment" \in DOMAIN m
                         /\ m.value_alignment =
                                [value |-> Hierarchy[Least(ranks)],
                                 original_score |-> original,
                                 bonus |-> bonus,
                                 final_score |-> m.score]
                ELSE /\ m.score = original
                     /\ "value_alignment" \notin DOMAIN m

\* the fixed scores of the four archetypes, in the order of patterns_config
ArchetypeScores == <<7 * ScoreUnit, 8 * ScoreUnit, 6 * ScoreUnit, 9 * ScoreUnit>>

\* the archetypes whose label the key contains
LabelsIn(situation_key) ==
    {k \in 1..4 : Contains(situation_key, patterns_config[k].key)}

\* the archetype's trigger on the utterance
Triggered(k, user_input) ==
    IF k = 1 THEN "?" \in Range(user_input)
    ELSE \E keyword \in Range(patterns_config[k].keywords) :
             Contains(lower(user_input), keyword)

\* C9: a non-regex pattern whose key contains exactly one archetype label
\* scores that archetype's fixed score if the utterance satisfies its
\* trigger and 0.0 otherwise; a key with no label scores 0.0; utterances
\* that differ only in letter case score the same.
C9_KeywordArchetypeScore ==
    ( /\ probe.fn = "_match_decision_pattern"
      /\ ~Get(probe.pattern, "is_regex", FALSE) )
    => LET labels == LabelsIn(Get(probe.pattern, "if_situation", <<>>))
       IN  /\ \A k \in labels :
                  labels = {k} =>
                      probe.score = IF Triggered(k, probe.user_input)
                                    THEN ArchetypeScores[k] ELSE 0
           /\ labels = {} => probe.score = 0
           /\ \A other \in MatchUtterances \cup {lower(probe.user_input)} :
                  lower(other) = lower(probe.user_input) =>
                      match_decision_pattern(other, probe.pattern) = probe.score

C9_Witness ==
    /\ probe.fn = "_match_decision_pattern"
    /\ probe.pattern = [if_situation |-> <<"i","f"," ","c","r","i","t","i","c","i","z","e","d"," ","h","a","r","s","h","l","y">>, is_regex |-> FALSE]
    /\ probe.user_input = <<"W","R","O","N","G">>
    /\ probe.score = 8 * ScoreUnit

\* the hierarchy values whose text occurs in the utterance, case ignored
MentionedValues(user_input) ==
    SelectSeq(Hierarchy, LAMBDA value : Contains(lower(user_input), lower(value)))

\* C10: prioritized_values is the subsequence of values_hierarchy of the
\* values that occur, case ignored, in the utterance, and is absent exactly
\* when there is no such value.
C10_PrioritizedValues ==
    Evaluated =>
        IF MentionedValues(call.user_input) = <<>>
        THEN "prioritized_values" \notin DOMAIN guidance
        ELSE /\ "prioritized_values" \in DOMAIN guidance
             /\ guidance.prioritized_values = MentionedValues(call.user_input)

C10_Witness ==
    /\ Evaluated
    /\ call.user_input = <<"l","o","y","a","l","t","y"," ","h","o","n","e","s","t","y">>
    /\ "prioritized_values" \in DOMAIN guidance
    /\ guidance.prioritized_values = <<Honesty, Loyalty>>

\* the argument as text, None being read as the empty string
TextOf(arg) == IF arg.given THEN arg.text ELSE <<>>

\* the number of places where the keyword occurs in the text
Places(text, keyword) ==
    Cardinality({i \in 1..Len(text) : OccursAt(keyword, text, i)})

RECURSIVE SumPlaces(_, _)
SumPlaces(text, keywords) ==
    IF keywords = <<>> THEN 0
    ELSE Places(text, Head(keywords)) + SumPlaces(text, Tail(keywords))

SentimentProbed == probe.fn = "_detect_sentiment_in_input"

\* C11: neutral_score is 1.0 exactly when positive_score and negative_score
\* are both 0 and is 0.0 otherwise; an empty or absent utterance returns
\* 0, 0, 1.0; both counts are non-negative.
C11_NeutralIffNoKeyword ==
    SentimentProbed =>
        LET scores == probe.scores
        IN  /\ scores.neutral_score \in {0, ScoreUnit}
            /\ scores.neutral_score = ScoreUnit
                   <=> (scores.positive_score = 0 /\ scores.negative_score = 0)
            /\ scores.positive_score >= 0
            /\ scores.negative_score >= 0
            /\ TextOf(probe.user_input) = <<>> =>
                   scores = [positive_score |-> 0, negative_score |-> 0,
                             neutral_score |-> ScoreUnit]

C11_Witness ==
    /\ SentimentProbed
    /\ probe.user_input = Str(<<"t","h","a","t"," ","B","a","d">>)
    /\ probe.scores = [positive_score |-> 0, negative_score |-> ScoreUnit,
                       neutral_score |-> 0]

\* C12: each count is the sum, over its keywords, of the keyword's
\* occurrences in the lower-cased utterance, so every occurrence of "not
\* good" counts once as negative and once, through "good", as positive;
\* "not good, that was bad" scores positive 1, negative 2, neutral 0.0.
C12_NestedKeywordsDoubleCount ==
    SentimentProbed =>
        LET scores == probe.scores
            text == lower(TextOf(probe.user_input))
        IN  /\ scores.positive_score = SumPlaces(text, positive_keywords) * ScoreUnit
            /\ scores.negative_score = SumPlaces(text, negative_keywords) * ScoreUnit
            /\ scores.positive_score >= Places(text, <<"n","o","t"," ","g","o","o","d">>) * ScoreUnit
            /\ scores.negative_score >= Places(text, <<"n","o","t"," ","g","o","o","d">>) * ScoreUnit
            /\ probe.user_input = Str(NotGoodThatWasBad) =>
                   scores = [positive_score |-> ScoreUnit,
                             negative_score |-> 2 * ScoreUnit,
                             neutral_score |-> 0]

C12_Witness ==
    /\ SentimentProbed
    /\ probe.user_input = Str(NotGoodThatWasBad)
    /\ probe.scores.positive_score = ScoreUnit
    /\ probe.scores.negative_score = 2 * ScoreUnit

\* C13: a call of evaluate_situation leaves the conversation history and
\* every field of the rule set as they were before the call.
C13_InputsUnchanged ==
    [][ (call' # call \/ guidance' # guidance) =>
            /\ decision_rules' = decision_rules
            /\ conversation_history' = conversation_history ]_vars

\* a call, on a history with turns, that adjusted a score and returned the
\* matches in another order than the patterns are declared in
C13_Witness ==
    /\ Evaluated
    /\ call.history # <<>>
    /\ conversation_history = call.history
    /\ Len(Matched) = 2
    /\ "value_alignment" \in DOMAIN Matched[1]
    /\ Matched[1].pattern = DeclaredPatterns[2]
    /\ Matched[2].pattern = DeclaredPatterns[1]
    /\ Matched[1].pattern # Matched[2].pattern

\* the guidance without the pattern configurations its matches point to
WithoutConfigurations(g) ==
    [g EXCEPT !.matched_patterns =
        [i \in 1..Len(@) |-> Restrict(@[i], DOMAIN @[i] \ {"pattern"})]]

\* C14: a rule set and a pattern with any subset of their fields absent are
\* evaluated without error and as if each absent field were written out as
\* its default (empty string or list, category "general", is_regex false):
\* an absent hierarchy gives no prioritized_values, absent notes no
\* moral_framework, absent decision_patterns no matches, and a pattern
\* without if_situation is never matched.
C14_AbsentFieldsAsDefaults ==
    call.made =>
        /\ "exception" \notin DOMAIN guidance
        /\ WithoutConfigurations(guidance) =
               WithoutConfigurations(
                   evaluate_situation(call.user_input, FilledRules(decision_rules),
                                      call.history, EmptyDict))
        /\ "values_hierarchy" \notin DOMAIN decision_rules =>
               "prioritized_values" \notin DOMAIN guidance
        /\ "moral_framework_notes" \notin DOMAIN decision_rules =>
               "moral_framework" \notin DOMAIN guidance
        /\ "decision_patterns" \notin DOMAIN decision_rules => Matched = <<>>
        /\ \A i \in 1..Len(Matched) :
               /\ "if_situation" \in DOMAIN Matched[i].pattern
               /\ "category" \notin DOMAIN Matched[i].pattern =>
                      Matched[i].category = "general"
               /\ "then_response_style" \notin DOMAIN Matched[i].pattern =>
                      Matched[i].response_style = ""
               /\ "aligns_with_values" \notin DOMAIN Matched[i].pattern =>
                      "value_alignment" \notin DOMAIN Matched[i]

\* a pattern with only if_situation matched under a rule set with only
\* decision_patterns
C14_Witness ==
    /\ Evaluated
    /\ DOMAIN decision_rules = {"decision_patterns"}
    /\ Len(Matched) = 1
    /\ DOMAIN Matched[1].pattern = {"if_situation"}
    /\ Matched[1].category = "general"
    /\ Matched[1].score = 8 * ScoreUnit

\* the guidance of a call that kept a match and still took the Tier B default
LowScoreMatchWithTierB(g) ==
    /\ "exception" \notin DOMAIN g
    /\ g.matched_patterns # <<>>
    /\ "prioritized_values" \notin DOMAIN g
    /\ "moral_framework" \notin DOMAIN g
    /\ g.top_decision_confidence <= 5 * ScoreUnit
    /\ g.current_sentiment.positive_score = 0
    /\ g.current_sentiment.negative_score = 0
    /\ "default_approach" \in DOMAIN g
    /\ g.default_approach = TierB

\* C15: there are inputs (the session's own rule set and history or any
\* other) for which matched_patterns is non-empty and the Tier B condition
\* holds, so that default_approach is the Tier B text while matched_patterns
\* is non-empty.
C15_LowScoreMatchGetsTierB ==
    \E rules \in {decision_rules} \cup RuleSets \cup PartialRuleSets,
       user_input \in AllUtterances,
       history \in {conversation_history} \cup Histories :
        LowScoreMatchWithTierB(
            evaluate_situation(user_input, rules, history, EmptyDict))

\* C15, as the code behaves: every kept match scores above 5.0, so a call
\* with a match has a confidence above 5.0 and never the Tier B text; a
\* call without a match that meets the other conditions takes Tier A.
C15_EveryMatchIsConfident ==
    Evaluated =>
        /\ Matched # <<>> => guidance.top_decision_confidence > 5 * ScoreUnit
        /\ ~DefaultApproachIs(TierB)

MatchProbed == probe.fn = "_match_decision_pattern"

\* the regex compiles and is found somewhere in the text
Matches(source, text) == ~re_error(source) /\ re_search(source, text)

\* C16: a regex pattern is searched in the utterance as typed; when it
\* matches, the score is the archetype's fixed score if the source is
\* literally that archetype's label and 5.0 for any other source; when it
\* does not match the score is 0.0, whatever keywords the utterance holds.
C16_RegexOnRawUtterance ==
    (MatchProbed /\ Get(probe.pattern, "is_regex", FALSE)) =>
        LET source == Get(probe.pattern, "if_situation", <<>>)
            labelled == {k \in 1..4 : patterns_config[k].key = source}
        IN  probe.score =
                IF Matches(source, probe.user_input)
                THEN IF labelled # {}
                     THEN ArchetypeScores[CHOOSE k \in labelled : TRUE]
                     ELSE 5 * ScoreUnit
                ELSE 0

\* the regex "criticized" scores 8.0 on an utterance that holds the label
C16_Witness ==
    /\ MatchProbed
    /\ probe.pattern = [if_situation |-> Criticized, is_regex |-> TRUE]
    /\ probe.user_input = <<"c","r","i","t","i","c","i","z","e","d">>
    /\ probe.score = 8 * ScoreUnit

\* the patterns the call keeps, in the order they are declared in
KeptPatterns ==
    SelectSeq(DeclaredPatterns,
              LAMBDA p : match_decision_pattern(call.user_input, p) > 5 * ScoreUnit)

HistoryProbed == probe.fn = "_analyze_conversation_history"

\* the user utterances of the analysed history, oldest first
Said == UserUtterances(probe.history)

\* the members of a set of numbers, smallest first
RECURSIVE Ascending(_)
Ascending(numbers) ==
    IF numbers = {} THEN <<>>
    ELSE LET least == CHOOSE n \in numbers : \A m \in numbers : n <= m
         IN  <<least>> \o Ascending(numbers \ {least})

\* C18: pending_questions is the list, oldest first, of the 4th-, 3rd- and
\* 2nd-from-last user utterances that contain "?"; the latest user utterance
\* and the utterances older than the 4th-from-last are never looked at.
C18_PendingQuestionsWindow ==
    HistoryProbed =>
        LET n == Len(Said)
            asked == {i \in 1..n : /\ n - 3 <= i
                                   /\ i <= n - 1
                                   /\ "?" \in Range(Said[i])}
            places == Ascending(asked)
        IN  probe.analysis.pending_questions
                = [k \in 1..Len(places) |-> Said[places[k]]]

\* five user utterances and a turn of the character alone, all questions
\* but the 3rd-from-last; the two questions in the window differ and come
\* out oldest first
C18_Witness ==
    /\ HistoryProbed
    /\ Len(Said) = 5
    /\ Len(probe.history) = 6
    /\ \A i \in {1, 2, 4, 5} : "?" \in Range(Said[i])
    /\ "?" \notin Range(Said[3])
    /\ Said[2] # Said[4]
    /\ probe.analysis.pending_questions = <<Said[2], Said[4]>>

\* the tokens the topics are taken from: the whitespace-delimited words
\* longer than 4 characters of the last 5 user utterances, lower-cased
TopicTokens ==
    LET first == IF Len(Said) > 5 THEN Len(Said) - 4 ELSE 1
        recent == [i \in 1..(Len(Said) + 1 - first) |-> Said[first + i - 1]]
        words == Flatten([i \in 1..Len(recent) |-> split(recent[i])])
        long == SelectSeq(words, LAMBDA word : Len(word) > 4)
    IN  [i \in 1..Len(long) |-> lower(long[i])]

Frequency(tokens, token) == Cardinality({i \in 1..Len(tokens) : tokens[i] = token})

FirstPlace(tokens, token) ==
    CHOOSE i \in 1..Len(tokens) :
        tokens[i] = token /\ \A j \in 1..(i - 1) : tokens[j] # token

\* a ranks before b: more frequent, or as frequent and met earlier
RanksBefore(tokens, a, b) ==
    \/ Frequency(tokens, a) > Frequency(tokens, b)
    \/ /\ Frequency(tokens, a) = Frequency(tokens, b)
       /\ FirstPlace(tokens, a) < FirstPlace(tokens, b)

\* C19: recurring_topics has at most 3 entries, all distinct, each a
\* lower-cased token longer than 4 characters of the last 5 user
\* utterances; they are the most frequent such tokens, in descending
\* frequency, equal frequencies in the order of first occurrence.
C19_RecurringTopics ==
    HistoryProbed =>
        LET topics == probe.analysis.recurring_topics
            tokens == TopicTokens
        IN  /\ Len(topics) <= 3
            /\ Len(topics) = IF Cardinality(Range(tokens)) < 3
                             THEN Cardinality(Range(tokens)) ELSE 3
            /\ \A i \in 1..Len(topics) :
                   /\ topics[i] \in Range(tokens)
                   /\ Len(topics[i]) > 4
                   /\ topics[i] = lower(topics[i])
            /\ \A i, j \in 1..Len(topics) :
                   i < j => RanksBefore(tokens, topics[i], topics[j])
            /\ \A token \in Range(tokens) \ Range(topics) :
                   \A i \in 1..Len(topics) : RanksBefore(tokens, topics[i], token)

\* six user utterances, "happy" in the oldest, and four distinct tokens in
\* the last five: the most frequent first, then two of equal frequency in
\* the order met, and the fourth left out
C19_Witness ==
    /\ HistoryProbed
    /\ Len(Said) = 6
    /\ Contains(Said[1], <<"h","a","p","p","y">>)
    /\ Cardinality(Range(TopicTokens)) = 4
    /\ Frequency(TopicTokens, <<"d","r","a","g","o","n","s">>) = Frequency(TopicTokens, <<"a","n","g","r","y","?">>)
    /\ probe.analysis.recurring_topics = << <<"s","t","o","r","y">>, <<"d","r","a","g","o","n","s">>, <<"a","n","g","r","y","?">> >>

\* C20: recent_emotional_tones is a set of words among angry, happy and sad,
\* and a tone is in it exactly when the word occurs, case ignored, in one of
\* the last 3 user utterances.
C20_RecentEmotionalTones ==
    HistoryProbed =>
        LET tones == probe.analysis.recent_emotional_tones
            n == Len(Said)
        IN  /\ tones \subseteq { <<"a","n","g","r","y">>, <<"h","a","p","p","y">>, <<"s","a","d">> }
            /\ \A tone \in { <<"a","n","g","r","y">>, <<"h","a","p","p","y">>, <<"s","a","d">> } :
                   tone \in tones <=>
                       \E i \in 1..n : /\ i >= n - 2
                                       /\ Contains(lower(Said[i]), tone)

\* a tone typed in capitals is found; one only in the 4th-from-last
\* utterance is not
C20_Witness ==
    /\ HistoryProbed
    /\ Len(Said) = 4
    /\ Contains(lower(Said[1]), <<"h","a","p","p","y">>)
    /\ Contains(Said[4], <<"A","N","G","R","Y">>)
    /\ probe.analysis.recent_emotional_tones = { <<"a","n","g","r","y">>, <<"s","a","d">> }


(***************************************************************************)
(* The history analysis and turns without a user utterance                 *)
(***************************************************************************)
\* the analysed history without its turns that have no 'user' key
Heard == SelectSeq(probe.history, LAMBDA turn : "user" \in DOMAIN turn)

\* the lower-cased words longer than 4 characters of all the user utterances
AllTopicTokens ==
    Flatten([i \in 1..Len(Said) |-> TopicWordsOf(Said[i])])

\* C21: the analysis of a history is the analysis of the same history with
\* every turn that has no user utterance removed, so such turns take no
\* place in any window; the analysis is always the three results, all empty
\* when there is no user utterance, and with fewer user utterances than a
\* window holds (5 for topics, 3 before the latest for questions, 3 for
\* tones) every utterance there is gets looked at.
C21_UserUtterancesOnly ==
    HistoryProbed =>
        LET n == Len(Said)
            analysis == probe.analysis
        IN  /\ analysis = analyze_conversation_history(Heard)
            /\ DOMAIN analysis
                   = {"recurring_topics", "pending_questions", "recent_emotional_tones"}
            /\ n = 0 => analysis = [recurring_topics |-> <<>>,
                                    pending_questions |-> <<>>,
                                    recent_emotional_tones |-> {}]
            /\ n <= 5 =>
                   /\ Range(analysis.recurring_topics) \subseteq Range(AllTopicTokens)
                   /\ Len(analysis.recurring_topics)
                          = IF Cardinality(Range(AllTopicTokens)) < 3
                            THEN Cardinality(Range(AllTopicTokens)) ELSE 3
            /\ n <= 4 =>
                   Range(analysis.pending_questions)
                       = {Said[i] : i \in {j \in 1..(n - 1) : "?" \in Range(Said[j])}}
            /\ n <= 3 =>
                   analysis.recent_emotional_tones
                       = {tone \in emotional_keywords :
                             \E i \in 1..n : Contains(lower(Said[i]), tone)}

\* two user utterances with two turns of the character alone between them:
\* fewer utterances than any window, and the tone of the first one, four
\* turns back, is found
C21_Witness ==
    /\ HistoryProbed
    /\ Len(probe.history) = 4
    /\ Len(Said) = 2
    /\ "user" \in DOMAIN probe.history[1]
    /\ "user" \notin DOMAIN probe.history[2]
    /\ "user" \notin DOMAIN probe.history[3]
    /\ Contains(Said[1], <<"A","N","G","R","Y">>)
    /\ probe.analysis.pending_questions = <<Said[1]>>
    /\ probe.analysis.recent_emotional_tones = { <<"a","n","g","r","y">>, <<"s","a","d">> }

(***************************************************************************)
(* The orchestrator's history                                              *)
(***************************************************************************)
ManagerProbed == probe.fn = "ConversationManager"

\* C22: constructing the manager gives a manager, and after the n-th
\* process_user_input call on it the call has returned, its evaluation was
\* made of exactly the n-1 turns completed before it, and the history holds
\* n turns, each with the user and the character utterance.
C22_HistoryHandedThenAppended ==
    ManagerProbed =>
        /\ probe.raised = "none"
        /\ probe.constructed
        /\ Len(conversation_history) = probe.inputs
        /\ probe.inputs > 0 =>
               /\ call.made
               /\ call.history = SubSeq(conversation_history, 1, probe.inputs - 1)
        /\ \A i \in 1..Len(conversation_history) :
               DOMAIN conversation_history[i] = {"user", "character"}

(***************************************************************************)
(* The range of the scores                                                 *)
(***************************************************************************)
\* the bonus an entry of matched_patterns was given
BonusOf(entry) ==
    IF "value_alignment" \in DOMAIN entry THEN entry.value_alignment.bonus ELSE 0

\* C23: every entry of matched_patterns scores more than 5.0, its score
\* being a raw score of 6.0, 7.0, 8.0 or 9.0 plus a bonus from 0 to 2.0, and
\* top_decision_confidence is 0.0 or more than 5.0 and at most 11.0.
C23_ScoreRange ==
    Evaluated =>
        /\ \A i \in 1..Len(Matched) :
               /\ Matched[i].score > 5 * ScoreUnit
               /\ Matched[i].score - BonusOf(Matched[i])
                      \in {6 * ScoreUnit, 7 * ScoreUnit, 8 * ScoreUnit, 9 * ScoreUnit}
               /\ BonusOf(Matched[i]) >= 0
               /\ BonusOf(Matched[i]) <= 2 * ScoreUnit
        /\ \/ guidance.top_decision_confidence = 0
           \/ /\ guidance.top_decision_confidence > 5 * ScoreUnit
              /\ guidance.top_decision_confidence <= 11 * ScoreUnit

\* the highest confidence there is, 9.0 plus 2.0, next to a match of 7.0
\* plus 1.0
C23_Witness ==
    /\ Evaluated
    /\ Len(Matched) = 2
    /\ guidance.top_decision_confidence = 11 * ScoreUnit
    /\ BonusOf(Matched[1]) = 2 * ScoreUnit
    /\ BonusOf(Matched[2]) = ScoreUnit
    /\ Matched[2].score = 8 * ScoreUnit

(***************************************************************************)
(* A key with several archetype labels                                     *)
(***************************************************************************)
\* the archetypes whose label is in the key of the probed pattern and whose
\* trigger the probed utterance satisfies
SatisfiedArchetypes ==
    {k \in LabelsIn(Get(probe.pattern, "if_situation", <<>>)) :
        Triggered(k, probe.user_input)}

\* C24: a non-regex pattern scores the fixed score of the first archetype,
\* in the order personal question, criticized, complimented, threatened,
\* whose label is in the key and whose trigger the utterance satisfies,
\* whatever the order of the labels in the key and whatever the other
\* satisfied archetypes score; 0.0 when there is none.
C24_FirstSatisfiedArchetype ==
    ( /\ MatchProbed
      /\ ~Get(probe.pattern, "is_regex", FALSE) )
    => IF SatisfiedArchetypes = {}
       THEN probe.score = 0
       ELSE LET first == CHOOSE k \in SatisfiedArchetypes :
                             \A other \in SatisfiedArchetypes : k <= other
            IN  probe.score = ArchetypeScores[first]

\* criticized and threatened both satisfied: 8.0, not 9.0
C24_Witness ==
    /\ MatchProbed
    /\ probe.pattern = [if_situation |-> <<"c","r","i","t","i","c","i","z","e","d"," ","o","r"," ","t","h","r","e","a","t","e","n","e","d">>, is_regex |-> FALSE]
    /\ probe.user_input = <<"w","r","o","n","g"," ","d","a","n","g","e","r">>
    /\ SatisfiedArchetypes = {2, 4}
    /\ probe.score = 8 * ScoreUnit

(***************************************************************************)
(* The adjuster keeps every match                                          *)
(***************************************************************************)
WeighProbed == probe.fn = "_weigh_against_value_hierarchy"

\* the entry is the match with a score raised by at most 2.0 and nothing
\* else changed, but for a value_alignment it may have been given
AdjustedFrom(entry, match) ==
    /\ entry.pattern = match.pattern
    /\ entry.response_style = match.response_style
    /\ entry.category = match.category
    /\ entry.score >= match.score
    /\ entry.score <= match.score + 2 * ScoreUnit
    /\ DOMAIN match \subseteq DOMAIN entry
    /\ DOMAIN entry \subseteq DOMAIN match \cup {"value_alignment"}

\* C25: the output of the adjuster has one entry per input match and each
\* input match has one entry: there is a one-to-one pairing of the places
\* of the output with the places of the input under which each entry has
\* its match's pattern, response_style and category and a score of at
\* least the match's and at most the match's plus 2.0.
C25_AdjusterKeepsMatches ==
    WeighProbed =>
        LET n == Len(probe.matched_patterns)
        IN  /\ Len(probe.adjusted) = n
            /\ \E pairing \in Permutations(1..n) :
                   \A i \in 1..n :
                       AdjustedFrom(probe.adjusted[i], probe.matched_patterns[pairing[i]])

\* three different matches that come out in another order, the first one
\* raised by 2.0 and the last one as it was
C25_Witness ==
    /\ WeighProbed
    /\ Len(probe.matched_patterns) = 3
    /\ probe.adjusted[1] # probe.matched_patterns[1]
    /\ probe.adjusted[1].pattern = probe.matched_patterns[3].pattern
    /\ probe.adjusted[1].score = probe.matched_patterns[3].score + 2 * ScoreUnit
    /\ probe.adjusted[3] = probe.matched_patterns[2]
    /\ probe.matched_patterns[1] # probe.matched_patterns[2]
=============================================================================
